---- MODULE Spec2Model ----
(***************************************************************************)
(* proxy-vir: a multi-target proxy.  createWrappedMultiTargetProxy builds  *)
(* one Proxy over the combined properties of a prioritized list of targets *)
(* (createPrioritizedProperties) and a second prioritized list of proxy    *)
(* handler overrides.  The model follows src/src/prioritized-properties.ts *)
(* (lines 1-97) and src/src/proxy-vir/create-multi-target-proxy.ts.        *)
(*                                                                         *)
(* Host runtime facts the code relies on (ECMAScript, strict mode since    *)
(* the sources are ES modules):                                            *)
(*  - assigning a new property to a non-extensible object throws;          *)
(*  - assigning to a non-writable own property throws;                     *)
(*  - Object.defineProperty throws on an incompatible redefinition;        *)
(*  - `key in object` and `object[key]` follow the prototype chain;        *)
(*  - Reflect.ownKeys lists own keys only;                                 *)
(*  - a Proxy is callable only when its target object is callable, and     *)
(*    the isExtensible trap must agree with the target.                    *)
(***************************************************************************)
EXTENDS Integers, Sequences, FiniteSets, TLC

VARIABLES
    list,               \* targetProperties' list (prioritized-properties.ts:42)
    primaryTarget,      \* own properties of primaryTarget (create-multi-target-proxy.ts:47)
    combinedProperties, \* targetProperties.combinedProperties, the Proxy's target
    deletedProperties,  \* create-multi-target-proxy.ts:49
    prototype,          \* create-multi-target-proxy.ts:51
    isExtensible,       \* create-multi-target-proxy.ts:53
    overrideList,       \* proxyOverrides' list
    overrideCombined,   \* proxyOverrides.combinedProperties
    isCallable,         \* options.isCallable
    last                \* the last operation on proxy or proxyModifier and its outcome

vars == <<list, primaryTarget, combinedProperties, deletedProperties, prototype,
          isExtensible, overrideList, overrideCombined, isCallable, last>>

----------------------------------------------------------------------------
(* Bounds of the model *)

\* longest data list (primary entry included) an add operation may grow
MaxList == 3
\* longest list of proxy handler overrides
MaxHandlers == 2

----------------------------------------------------------------------------
(* Values *)

Absent == "absent"          \* no own property under that key
Undefined == "undefined"    \* the JavaScript value undefined
None == "none"
TypeError == "TypeError"
Native == "native"          \* the built-in function found on a built-in prototype

\* property keys; "toString" is also a key of Object.prototype / Function.prototype
Keys == {"a", "b", "toString"}
\* own-key order of every object of the model (Reflect.ownKeys order)
KeySeq == <<"a", "b", "toString">>

\* the primary entry created by the constructor
Primary == "P"
\* caller-supplied targets, by identity
Targets == {"T1", "T2"}

\* a caller-supplied target whose property "b" is an accessor: its getter
\* reads proxy.a and returns what it read
GetterTarget == "G"
\* the value standing for that accessor in the target's properties
Getter == "getter"
\* the key the getter reads through the proxy
GetterReads == "a"

\* the own properties of each caller-supplied target; T2 is a function that
\* carries properties
TargetProps(t) ==
    CASE t = "T1" -> [k \in Keys |-> IF k \in {"a", "b"} THEN "x1" ELSE Absent]
      [] t = "T2" -> [k \in Keys |-> IF k \in {"b", "toString"} THEN "x2" ELSE Absent]
      [] t = GetterTarget -> [k \in Keys |-> IF k = "b" THEN Getter ELSE Absent]

\* typeof target === 'function'
TargetIsFunction(t) == t = "T2"

\* prototype objects
ObjectProto == "Object.prototype"
FunctionProto == "Function.prototype"
NullProto == "null"
Protos == {ObjectProto, FunctionProto, NullProto}

\* keys found on a prototype (its chain included)
ProtoKeys(p) == IF p \in {ObjectProto, FunctionProto} THEN {"toString"} ELSE {}

\* values written through the proxy's set trap
WriteValues == {"w1"}
\* keys written, deleted and defined through the proxy
WriteKeys == {"a", "toString"}
DefineKeys == {"a"}
\* value carried by descriptors given to the defineProperty trap
DefineValue == "d1"

\* proxy traps
ObjectTraps == {"defineProperty", "deleteProperty", "get", "getOwnPropertyDescriptor",
                "getPrototypeOf", "has", "isExtensible", "ownKeys",
                "preventExtensions", "set", "setPrototypeOf"}
TrapNames == ObjectTraps \cup {"apply"}
TrapSeq == <<"apply", "defineProperty", "deleteProperty", "get",
             "getOwnPropertyDescriptor", "getPrototypeOf", "has", "isExtensible",
             "ownKeys", "preventExtensions", "set", "setPrototypeOf">>

\* caller-supplied ProxyHandler objects, by identity
Handlers == {"H1", "H2"}
\* H1 overrides get only (as in the test); H2 overrides every trap
HandlerProps(h) ==
    CASE h = "H1" -> [x \in TrapNames |-> IF x = "get" THEN "fn:H1" ELSE Absent]
      [] h = "H2" -> [x \in TrapNames |-> "fn:H2"]

\* what calling a handler's trap function returns
CallResult(fn) ==
    CASE fn = "fn:H1" -> "ret:H1"
      [] fn = "fn:H2" -> "ret:H2"
      [] OTHER -> Undefined

----------------------------------------------------------------------------
(* Host objects.  An object is [own, proto, extensible]: own maps every key *)
(* of its universe to a value or Absent.                                    *)

\* getObjectTypedKeys(object): the own keys, in order (Reflect.ownKeys)
GetObjectTypedKeys(keySeq, own) == SelectSeq(keySeq, LAMBDA k : own[k] # Absent)

\* typedHasProperty(object, key): `key in object`, own or inherited
TypedHasProperty(obj, k) ==
    \/ (k \in DOMAIN obj.own /\ obj.own[k] # Absent)
    \/ k \in ProtoKeys(obj.proto)

\* object[key]: the own value, else the inherited one, else undefined
ReadProperty(obj, k) ==
    IF k \in DOMAIN obj.own /\ obj.own[k] # Absent THEN obj.own[k]
    ELSE IF k \in ProtoKeys(obj.proto) THEN Native
    ELSE Undefined

\* the own properties (key -> value) of an entry of the data list
EntryProps(prim, e) ==
    IF e = Primary
        THEN [k \in Keys |-> prim[k].value]
        ELSE TargetProps(e)

\* the objects the data list refers to: entry -> own properties
DataHeap(prim) ==
    [e \in Targets \cup {Primary, GetterTarget} |-> EntryProps(prim, e)]

\* the objects the handler list refers to: handler -> own properties
HandlerHeap == [h \in Handlers |-> HandlerProps(h)]

\* the own properties of each entry of a list, in list order
ListProps(heap, lst) == [i \in 1..Len(lst) |-> heap[lst[i]]]

----------------------------------------------------------------------------
(* createPrioritizedProperties (prioritized-properties.ts:39-97) *)

\* an insertion that ignores the index and puts the entry last
SpliceInsertLast(lst, index, entry) == Append(lst, entry)

\* list.splice(index, 0, entry), index counted from 0 and clamped to the length
SpliceInsert(lst, index, entry) ==
    LET at == IF index > Len(lst) THEN Len(lst) ELSE index
    IN  SubSeq(lst, 1, at) \o <<entry>> \o SubSeq(lst, at + 1, Len(lst))

\* list.indexOf(entry), counted from 1; 0 when absent
IndexOf(lst, entry) ==
    IF \E i \in 1..Len(lst) : lst[i] = entry
        THEN CHOOSE i \in 1..Len(lst) :
                /\ lst[i] = entry
                /\ \A j \in 1..(i - 1) : lst[j] # entry
        ELSE 0

\* list.splice(index, 1)
SpliceRemove(lst, i) == SubSeq(lst, 1, i - 1) \o SubSeq(lst, i + 1, Len(lst))

\* entry[property] (line 56): a data property gives its value; an accessor
\* runs its getter, which reads the proxy while the scan is under way: the
\* get trap (create-multi-target-proxy.ts:120-124) answers from the tombstones
\* and from the combined object as it is at that moment
EntryValue(acc, value) ==
    IF value = Getter
        THEN IF GetterReads \in acc.deleted THEN Undefined
             ELSE ReadProperty(acc.obj, GetterReads)
        ELSE value

\* one turn of the inner forEach of updateObject (lines 53-58): save the
\* property unless typedHasProperty finds it; the assignment throws when the
\* combined object is not extensible
SaveProperty(acc, value, k) ==
    IF acc.threw THEN acc
    ELSE IF TypedHasProperty(acc.obj, k) THEN acc
    ELSE IF ~acc.obj.extensible THEN [acc EXCEPT !.threw = TRUE]
    ELSE [acc EXCEPT !.obj.own[k] = EntryValue(acc, value)]

\* getObjectTypedKeys(entry).forEach (lines 53-58) over the entry's keys
RECURSIVE ScanKeys(_, _, _, _)
ScanKeys(acc, entryKeys, i, entryProps) ==
    IF i > Len(entryKeys) THEN acc
    ELSE ScanKeys(SaveProperty(acc, entryProps[entryKeys[i]], entryKeys[i]),
                  entryKeys, i + 1, entryProps)

\* list.forEach of updateObject (lines 52-59); props[i] holds the own
\* properties of the i-th entry
RECURSIVE ScanEntries(_, _, _, _)
ScanEntries(acc, keySeq, props, i) ==
    IF i > Len(props) THEN acc
    ELSE ScanEntries(ScanKeys(acc, GetObjectTypedKeys(keySeq, props[i]), 1, props[i]),
                     keySeq, props, i + 1)

\* clearing out the object's current keys (lines 48-50)
ClearKeys(obj) == [obj EXCEPT !.own = [k \in DOMAIN obj.own |-> Absent]]

\* no updateCallback given (proxyOverrides)
NoCallback == [given |-> FALSE, proto |-> None, deleted |-> {}, extensible |-> TRUE]

\* the updateCallback of targetProperties with the closure variables it reads
DataCallback(proto, deleted, extensible) ==
    [given |-> TRUE, proto |-> proto, deleted |-> deleted, extensible |-> extensible]

\* updateCallback of targetProperties (create-multi-target-proxy.ts:61-69)
UpdateCallback(obj, proto, deleted, extensible) ==
    IF ~obj.extensible /\ obj.proto # proto
        THEN [obj |-> obj, threw |-> TRUE]
        ELSE [obj |-> [own |-> [k \in DOMAIN obj.own |->
                                    IF k \in deleted THEN Absent ELSE obj.own[k]],
                       proto |-> proto,
                       extensible |-> obj.extensible /\ extensible],
              threw |-> FALSE]

\* options?.updateCallback?.(combinedProperties) (line 61)
RunCallback(obj, callback) ==
    IF callback.given
        THEN UpdateCallback(obj, callback.proto, callback.deleted, callback.extensible)
        ELSE [obj |-> obj, threw |-> FALSE]

\* updateObject (lines 46-62): [obj, threw]; the callback runs only when the
\* scan did not throw.  The scan carries the tombstones of the callback's
\* closure, which a getter run by the scan meets when it reads the proxy
UpdateObject(obj, keySeq, props, callback) ==
    LET scanned == ScanEntries([obj |-> ClearKeys(obj), threw |-> FALSE,
                                deleted |-> callback.deleted],
                               keySeq, props, 1)
    IN  IF scanned.threw THEN [obj |-> scanned.obj, threw |-> TRUE]
        ELSE RunCallback(scanned.obj, callback)

\* addOverride (lines 71-74): [list, obj, threw]; heap gives the own
\* properties of the objects the list refers to
AddOverride(lst, obj, keySeq, entryPoint, entry, heap, callback) ==
    LET newList == SpliceInsert(lst, entryPoint, entry)
        updated == UpdateObject(obj, keySeq, ListProps(heap, newList), callback)
    IN  [list |-> newList, obj |-> updated.obj, threw |-> updated.threw]

\* an addFallback that puts the entry at the front of the list
AddFallbackAtFront(lst, obj, keySeq, entry, heap, callback) ==
    LET newList == <<entry>> \o lst
        updated == UpdateObject(obj, keySeq, ListProps(heap, newList), callback)
    IN  [list |-> newList, obj |-> updated.obj, threw |-> updated.threw]

\* addFallback (lines 75-78)
AddFallback(lst, obj, keySeq, entry, heap, callback) ==
    LET newList == Append(lst, entry)
        updated == UpdateObject(obj, keySeq, ListProps(heap, newList), callback)
    IN  [list |-> newList, obj |-> updated.obj, threw |-> updated.threw]

\* removeEntry (lines 80-89): [list, obj, threw, removed]
RemoveEntry(lst, obj, keySeq, entry, heap, callback) ==
    LET entryIndex == IndexOf(lst, entry)
        newList == SpliceRemove(lst, entryIndex)
        updated == UpdateObject(obj, keySeq, ListProps(heap, newList), callback)
    IN  IF entryIndex = 0
            THEN [list |-> lst, obj |-> obj, threw |-> FALSE, removed |-> FALSE]
            ELSE [list |-> newList, obj |-> updated.obj, threw |-> updated.threw,
                  removed |-> ~updated.threw]

\* a getCurrentList that hands out the list array itself
GetCurrentListItself(lst) == [array |-> lst, shared |-> TRUE]

\* getCurrentList (lines 93-95): [...list], a new array with the list's
\* entries; shared tells whether the array returned is the list's own array
GetCurrentList(lst) == [array |-> lst, shared |-> FALSE]

\* the initial combinedProperties: Object.fromEntries(listToMapInit(options))
\* (lines 14-33, 44): a later entry of the initial list overwrites an earlier one
RECURSIVE FromEntries(_, _, _)
FromEntries(own, props, i) ==
    IF i > Len(props) THEN own
    ELSE FromEntries([k \in DOMAIN own |->
                         IF props[i][k] # Absent THEN props[i][k] ELSE own[k]],
                     props, i + 1)

----------------------------------------------------------------------------
(* Host primitives used on primaryTarget.  A property of primaryTarget is   *)
(* [value, writable, configurable]; no code reads its enumerable attribute  *)
(* (Reflect.ownKeys lists non-enumerable keys too).                         *)

\* descriptors handed to the defineProperty trap: {value} alone, and one with
\* every attribute true; an attribute is "true", "false" or Absent
Descriptors ==
    { [value |-> DefineValue, writable |-> Absent, configurable |-> Absent],
      [value |-> DefineValue, writable |-> "true", configurable |-> "true"] }

\* no own property
NoProperty == [value |-> Absent, writable |-> FALSE, configurable |-> FALSE]

\* primaryTarget as created: {} or () => {} (line 47), no own key of Keys
EmptyPrimary == [k \in Keys |-> NoProperty]

\* primaryTarget[property] = newValue: [prim, threw]
AssignProperty(prim, k, v) ==
    IF prim[k].value = Absent
        THEN [prim |-> [prim EXCEPT ![k] = [value |-> v, writable |-> TRUE,
                                            configurable |-> TRUE]],
              threw |-> FALSE]
    ELSE IF ~prim[k].writable
        THEN [prim |-> prim, threw |-> TRUE]
    ELSE [prim |-> [prim EXCEPT ![k].value = v], threw |-> FALSE]

\* Object.defineProperty(primaryTarget, property, attributes): [prim, threw]
DefineOwnProperty(prim, k, desc) ==
    LET cur == prim[k]
        Flag(attr, old) == IF attr = Absent THEN old ELSE attr = "true"
    IN  IF cur.value = Absent
            THEN [prim |-> [prim EXCEPT ![k] =
                               [value |-> desc.value,
                                writable |-> Flag(desc.writable, FALSE),
                                configurable |-> Flag(desc.configurable, FALSE)]],
                  threw |-> FALSE]
        ELSE IF /\ ~cur.configurable
                /\ \/ desc.configurable = "true"
                   \/ (~cur.writable /\ desc.writable = "true")
                   \/ (~cur.writable /\ desc.value # cur.value)
            THEN [prim |-> prim, threw |-> TRUE]
        ELSE [prim |-> [prim EXCEPT ![k] =
                           [value |-> desc.value,
                            writable |-> Flag(desc.writable, cur.writable),
                            configurable |-> Flag(desc.configurable, cur.configurable)]],
              threw |-> FALSE]

----------------------------------------------------------------------------
(* createWrappedMultiTargetProxy (create-multi-target-proxy.ts:43-266) *)

\* overrideEntryPoint of targetProperties
OverrideEntryPoint == 1
\* options?.overrideEntryPoint ?? 0 of proxyOverrides
DefaultEntryPoint == 0

\* the properties of the entries of list lst, given primaryTarget's
DataProps(prim, lst) == ListProps(DataHeap(prim), lst)

\* targetProperties.forceUpdate() with the closure variables as given
ForceUpdate(lst, prim, obj, proto, deleted, extensible) ==
    UpdateObject(obj, KeySeq, DataProps(prim, lst),
                 DataCallback(proto, deleted, extensible))

\* proxyOverrides.combinedProperties.X is truthy
Overridden(x) == overrideCombined.own[x] # Absent

\* a delegation that hands back the override function without calling it
OverrideItself(x) == overrideCombined.own[x]

\* proxyOverrides.combinedProperties.X(...): the override's result
OverrideResult(x) == CallResult(overrideCombined.own[x])

BoolStr(b) == IF b THEN "true" ELSE "false"

\* the outcome of an operation: what the handler or modifier method returned
\* (ret, keys, targets) and what was raised (exc)
Outcome(op, key, arg, ret, exc) ==
    [op |-> op, key |-> key, arg |-> arg, ret |-> ret, exc |-> exc,
     keys |-> {}, targets |-> <<>>]

\* typeof of the Proxy's target: combinedProperties comes from
\* Object.fromEntries (prioritized-properties.ts:44), never a function
CombinedIsCallable == FALSE

\* typeof entry === 'function' for an entry of the data list
EntryIsFunction(e) == IF e = Primary THEN isCallable ELSE TargetIsFunction(e)

\* entry(): the primary arrow function returns undefined
CallEntry(e) ==
    CASE e = Primary -> Undefined
      [] e = "T2" -> "ret:T2"
      [] OTHER -> TypeError

\* the default get trap (lines 120-124)
DefaultGet(k) ==
    IF k \in deletedProperties THEN Undefined ELSE ReadProperty(combinedProperties, k)

\* the default has trap (lines 149-152)
DefaultHas(k) ==
    IF k \in deletedProperties THEN FALSE ELSE TypedHasProperty(combinedProperties, k)

\* the default ownKeys trap (lines 164-168), as a set
DefaultOwnKeys ==
    LET keys == GetObjectTypedKeys(KeySeq, combinedProperties.own)
    IN  {keys[i] : i \in 1..Len(keys)} \ deletedProperties

\* the default getOwnPropertyDescriptor trap (lines 133-137): the value of the
\* descriptor (every own property of the combined object is a writable,
\* enumerable, configurable data property) or undefined
DefaultGetOwnPropertyDescriptor(k) ==
    IF k \in deletedProperties THEN Undefined
    ELSE IF combinedProperties.own[k] # Absent THEN combinedProperties.own[k]
    ELSE Undefined

\* the default getPrototypeOf trap (line 143)
DefaultGetPrototypeOf == combinedProperties.proto

\* the apply handler (lines 74-84)
ApplyTrap ==
    IF Overridden("apply")
        THEN overrideCombined.own["apply"]
        ELSE LET found == {i \in 1..Len(list) : EntryIsFunction(list[i])}
                 firstCallableTarget ==
                    IF found = {} THEN Primary
                    ELSE list[CHOOSE i \in found : \A j \in found : i <= j]
             IN  CallEntry(firstCallableTarget)

\* the host's check of a default trap's result against the Proxy's target (the
\* combined object): TRUE when the host raises a TypeError
HostRejects(trap, k, ret, obj) ==
    CASE trap = "isExtensible" -> ret # BoolStr(obj.extensible)
      [] trap = "preventExtensions" -> ret = "true" /\ obj.extensible
      [] trap = "has" -> ret = "false" /\ obj.own[k] # Absent /\ ~obj.extensible
      [] trap = "getOwnPropertyDescriptor" ->
            ret = Undefined /\ obj.own[k] # Absent /\ ~obj.extensible
      [] trap = "deleteProperty" ->
            ret = "true" /\ obj.own[k] # Absent /\ ~obj.extensible
      [] trap = "defineProperty" ->
            ret = "true" /\ obj.own[k] = Absent /\ ~obj.extensible
      [] trap = "setPrototypeOf" ->
            ret = "true" /\ ~obj.extensible /\ obj.proto # k
      [] OTHER -> FALSE

Raised(b) == IF b THEN TypeError ELSE None

----------------------------------------------------------------------------
(* The proxy's traps (lines 88-213).  Each action is one call of a trap.    *)

\* a guard that lets every mutating trap through
RefusesNothing(trap) == FALSE

\* `if (!isExtensible) return false` of the mutating traps defineProperty,
\* deleteProperty, set and setPrototypeOf (lines 98, 110, 187, 204)
Refuses(trap) == ~isExtensible

\* a trap with a registered override returns the override's result (the first
\* statement of every trap)
Delegate(trap, k, arg) ==
    /\ last' = Outcome(trap, k, arg, OverrideResult(trap), None)
    /\ UNCHANGED <<list, primaryTarget, combinedProperties, deletedProperties,
                   prototype, isExtensible, overrideList, overrideCombined,
                   isCallable>>

\* get (lines 116-125)
Get(k) ==
    IF Overridden("get") THEN Delegate("get", k, None)
    ELSE
       /\ last' = Outcome("get", k, None, DefaultGet(k), None)
       /\ UNCHANGED <<list, primaryTarget, combinedProperties, deletedProperties,
                      prototype, isExtensible, overrideList, overrideCombined,
                      isCallable>>

\* has (lines 145-153)
Has(k) ==
    IF Overridden("has") THEN Delegate("has", k, None)
    ELSE
       /\ LET ret == BoolStr(DefaultHas(k))
          IN  last' = Outcome("has", k, None, ret,
                              Raised(HostRejects("has", k, ret, combinedProperties)))
       /\ UNCHANGED <<list, primaryTarget, combinedProperties, deletedProperties,
                      prototype, isExtensible, overrideList, overrideCombined,
                      isCallable>>

\* ownKeys (lines 160-169)
OwnKeys ==
    IF Overridden("ownKeys") THEN Delegate("ownKeys", None, None)
    ELSE
       /\ last' = [Outcome("ownKeys", None, None, None,
                           Raised(/\ ~combinedProperties.extensible
                                  /\ DefaultOwnKeys #
                                        {k \in Keys : combinedProperties.own[k] # Absent}))
                   EXCEPT !.keys = DefaultOwnKeys]
       /\ UNCHANGED <<list, primaryTarget, combinedProperties, deletedProperties,
                      prototype, isExtensible, overrideList, overrideCombined,
                      isCallable>>

\* getOwnPropertyDescriptor (lines 126-138)
GetOwnPropertyDescriptor(k) ==
    IF Overridden("getOwnPropertyDescriptor") THEN Delegate("getOwnPropertyDescriptor", k, None)
    ELSE
       /\ LET ret == DefaultGetOwnPropertyDescriptor(k)
          IN  last' = Outcome("getOwnPropertyDescriptor", k, None, ret,
                              Raised(HostRejects("getOwnPropertyDescriptor", k, ret,
                                                 combinedProperties)))
       /\ UNCHANGED <<list, primaryTarget, combinedProperties, deletedProperties,
                      prototype, isExtensible, overrideList, overrideCombined,
                      isCallable>>

\* getPrototypeOf (lines 139-144)
GetPrototypeOf ==
    IF Overridden("getPrototypeOf") THEN Delegate("getPrototypeOf", None, None)
    ELSE
       /\ last' = Outcome("getPrototypeOf", None, None, DefaultGetPrototypeOf, None)
       /\ UNCHANGED <<list, primaryTarget, combinedProperties, deletedProperties,
                      prototype, isExtensible, overrideList, overrideCombined,
                      isCallable>>

\* isExtensible (lines 154-159)
IsExtensible ==
    IF Overridden("isExtensible") THEN Delegate("isExtensible", None, None)
    ELSE
       /\ LET ret == BoolStr(isExtensible)
          IN  last' = Outcome("isExtensible", None, None, ret,
                              Raised(HostRejects("isExtensible", None, ret,
                                                 combinedProperties)))
       /\ UNCHANGED <<list, primaryTarget, combinedProperties, deletedProperties,
                      prototype, isExtensible, overrideList, overrideCombined,
                      isCallable>>

\* a deleteProperty that records the tombstone ahead of the extensibility test
DeletePropertyEager(k) ==
    IF Overridden("deleteProperty") THEN Delegate("deleteProperty", k, None)
    ELSE
       /\ deletedProperties' = deletedProperties \cup {k}
       /\ last' = Outcome("deleteProperty", k, None,
                          IF Refuses("deleteProperty") THEN "false" ELSE "true", None)
       /\ UNCHANGED <<list, primaryTarget, combinedProperties, prototype,
                      isExtensible, overrideList, overrideCombined, isCallable>>

\* deleteProperty (lines 106-115)
DeleteProperty(k) ==
    IF Overridden("deleteProperty") THEN Delegate("deleteProperty", k, None)
    ELSE
       /\ IF Refuses("deleteProperty")
            THEN /\ last' = Outcome("deleteProperty", k, None, "false", None)
                 /\ UNCHANGED deletedProperties
            ELSE /\ deletedProperties' = deletedProperties \cup {k}
                 /\ last' = Outcome("deleteProperty", k, None, "true",
                                    Raised(HostRejects("deleteProperty", k, "true",
                                                       combinedProperties)))
       /\ UNCHANGED <<list, primaryTarget, combinedProperties, prototype,
                      isExtensible, overrideList, overrideCombined, isCallable>>

\* set (lines 178-196)
Set(k, v) ==
    IF Overridden("set") THEN Delegate("set", k, v)
    ELSE
       /\ IF Refuses("set")
            THEN /\ last' = Outcome("set", k, v, "false", None)
                 /\ UNCHANGED <<primaryTarget, combinedProperties, deletedProperties>>
            ELSE LET deleted == deletedProperties \ {k}
                     assigned == AssignProperty(primaryTarget, k, v)
                     updated == ForceUpdate(list, assigned.prim, combinedProperties,
                                            prototype, deleted, isExtensible)
                 IN  /\ deletedProperties' = deleted
                     /\ primaryTarget' = assigned.prim
                     /\ IF assigned.threw
                          THEN /\ UNCHANGED combinedProperties
                               /\ last' = Outcome("set", k, v, None, TypeError)
                          ELSE /\ combinedProperties' = updated.obj
                               /\ last' = IF updated.threw
                                            THEN Outcome("set", k, v, None, TypeError)
                                            ELSE Outcome("set", k, v, "true", None)
       /\ UNCHANGED <<list, prototype, isExtensible, overrideList, overrideCombined,
                      isCallable>>

\* defineProperty (lines 90-105)
DefineProperty(k, desc) ==
    IF Overridden("defineProperty") THEN Delegate("defineProperty", k, desc.writable)
    ELSE
       /\ IF Refuses("defineProperty")
            THEN /\ last' = Outcome("defineProperty", k, desc.writable, "false", None)
                 /\ UNCHANGED <<primaryTarget, combinedProperties, deletedProperties>>
            ELSE LET deleted == deletedProperties \ {k}
                     defined == DefineOwnProperty(primaryTarget, k, desc)
                     updated == ForceUpdate(list, defined.prim, combinedProperties,
                                            prototype, deleted, isExtensible)
                 IN  /\ deletedProperties' = deleted
                     /\ primaryTarget' = defined.prim
                     /\ IF defined.threw
                          THEN /\ UNCHANGED combinedProperties
                               /\ last' = Outcome("defineProperty", k, desc.writable,
                                                  None, TypeError)
                          ELSE /\ combinedProperties' = updated.obj
                               /\ last' =
                                    IF updated.threw
                                      THEN Outcome("defineProperty", k, desc.writable,
                                                   None, TypeError)
                                      ELSE Outcome("defineProperty", k, desc.writable,
                                                   "true",
                                                   Raised(HostRejects("defineProperty", k,
                                                                      "true", updated.obj)))
       /\ UNCHANGED <<list, prototype, isExtensible, overrideList, overrideCombined,
                      isCallable>>

\* setPrototypeOf (lines 197-212)
SetPrototypeOf(p) ==
    IF Overridden("setPrototypeOf") THEN Delegate("setPrototypeOf", None, p)
    ELSE
       /\ IF Refuses("setPrototypeOf")
            THEN /\ last' = Outcome("setPrototypeOf", None, p, "false", None)
                 /\ UNCHANGED <<prototype, combinedProperties>>
            ELSE LET updated == ForceUpdate(list, primaryTarget, combinedProperties,
                                            p, deletedProperties, isExtensible)
                 IN  /\ prototype' = p
                     /\ combinedProperties' = updated.obj
                     /\ last' = IF updated.threw
                                  THEN Outcome("setPrototypeOf", None, p, None, TypeError)
                                  ELSE Outcome("setPrototypeOf", None, p, "true",
                                               Raised(HostRejects("setPrototypeOf", p,
                                                                  "true", updated.obj)))
       /\ UNCHANGED <<list, primaryTarget, deletedProperties, isExtensible,
                      overrideList, overrideCombined, isCallable>>

\* preventExtensions (lines 170-177)
PreventExtensions ==
    IF Overridden("preventExtensions") THEN Delegate("preventExtensions", None, None)
    ELSE
       /\ LET updated == ForceUpdate(list, primaryTarget, combinedProperties,
                                     prototype, deletedProperties, FALSE)
          IN  /\ isExtensible' = FALSE
              /\ combinedProperties' = updated.obj
              /\ last' = IF updated.threw
                           THEN Outcome("preventExtensions", None, None, None, TypeError)
                           ELSE Outcome("preventExtensions", None, None, "true",
                                        Raised(HostRejects("preventExtensions", None,
                                                           "true", updated.obj)))
       /\ UNCHANGED <<list, primaryTarget, deletedProperties, prototype,
                      overrideList, overrideCombined, isCallable>>

\* calling the proxy: the host passes the call to the apply handler (lines
\* 72-86) only when the Proxy's target is callable
Invoke ==
    /\ last' = IF isCallable /\ CombinedIsCallable
                 THEN Outcome("apply", None, None, ApplyTrap, None)
                 ELSE Outcome("apply", None, None, None, TypeError)
    /\ UNCHANGED <<list, primaryTarget, combinedProperties, deletedProperties,
                   prototype, isExtensible, overrideList, overrideCombined,
                   isCallable>>

----------------------------------------------------------------------------
(* proxyModifier (lines 215-252) *)

\* the updateCallback and the list's objects as they are when a modifier runs
CurrentCallback == DataCallback(prototype, deletedProperties, isExtensible)
CurrentHeap == DataHeap(primaryTarget)

\* addOverrideTarget (lines 229-231)
AddOverrideTarget(t) ==
    /\ Len(list) < MaxList
    /\ LET r == AddOverride(list, combinedProperties, KeySeq, OverrideEntryPoint, t,
                            CurrentHeap, CurrentCallback)
       IN  /\ list' = r.list
           /\ combinedProperties' = r.obj
           /\ last' = Outcome("addOverrideTarget", None, t, None, Raised(r.threw))
    /\ UNCHANGED <<primaryTarget, deletedProperties, prototype, isExtensible,
                   overrideList, overrideCombined, isCallable>>

\* addFallbackTarget (lines 221-223)
AddFallbackTarget(t) ==
    /\ Len(list) < MaxList
    /\ LET r == AddFallback(list, combinedProperties, KeySeq, t,
                            CurrentHeap, CurrentCallback)
       IN  /\ list' = r.list
           /\ combinedProperties' = r.obj
           /\ last' = Outcome("addFallbackTarget", None, t, None, Raised(r.threw))
    /\ UNCHANGED <<primaryTarget, deletedProperties, prototype, isExtensible,
                   overrideList, overrideCombined, isCallable>>

\* removeTarget (lines 233-235); the caller holds its own targets and, through
\* getAllTargets, the primary entry
RemoveTarget(t) ==
    /\ LET r == RemoveEntry(list, combinedProperties, KeySeq, t,
                            CurrentHeap, CurrentCallback)
       IN  /\ list' = r.list
           /\ combinedProperties' = r.obj
           /\ last' = IF r.threw
                        THEN Outcome("removeTarget", None, t, None, TypeError)
                        ELSE Outcome("removeTarget", None, t, BoolStr(r.removed), None)
    /\ UNCHANGED <<primaryTarget, deletedProperties, prototype, isExtensible,
                   overrideList, overrideCombined, isCallable>>

\* getAllTargets (lines 249-251): the outcome holds the array returned
\* (targets) and which array it is (ret)
GetAllTargets ==
    /\ LET current == GetCurrentList(list)
       IN  last' = [Outcome("getAllTargets", None, None,
                            IF current.shared THEN "list" ELSE "copy", None)
                    EXCEPT !.targets = current.array]
    /\ UNCHANGED <<list, primaryTarget, combinedProperties, deletedProperties,
                   prototype, isExtensible, overrideList, overrideCombined,
                   isCallable>>

\* what a caller does to the array getAllTargets returned
SnapshotMutations == {"push", "splice", "reverse"}

\* array after the mutation m
Mutated(array, m) ==
    CASE m = "push" -> Append(array, "T1")
      [] m = "splice" -> IF array = <<>> THEN array ELSE Tail(array)
      [] OTHER -> [i \in 1..Len(array) |-> array[Len(array) + 1 - i]]

\* the caller mutates the array that the last getAllTargets() returned; the
\* list changes with it only if that array is the list's own
MutateSnapshot(m) ==
    /\ last.op = "getAllTargets"
    /\ last' = [Outcome("mutateSnapshot", None, m, last.ret, None)
                EXCEPT !.targets = Mutated(last.targets, m)]
    /\ list' = IF last.ret = "list" THEN Mutated(last.targets, m) ELSE list
    /\ UNCHANGED <<primaryTarget, combinedProperties, deletedProperties,
                   prototype, isExtensible, overrideList, overrideCombined,
                   isCallable>>

\* addProxyHandlerOverride (lines 236-238)
AddProxyHandlerOverride(h) ==
    /\ Len(overrideList) < MaxHandlers
    /\ LET r == AddOverride(overrideList, overrideCombined, TrapSeq, DefaultEntryPoint,
                            h, HandlerHeap, NoCallback)
       IN  /\ overrideList' = r.list
           /\ overrideCombined' = r.obj
           /\ last' = Outcome("addProxyHandlerOverride", None, h, None, Raised(r.threw))
    /\ UNCHANGED <<list, primaryTarget, combinedProperties, deletedProperties,
                   prototype, isExtensible, isCallable>>

\* addProxyHandlerFallback (lines 239-241)
AddProxyHandlerFallback(h) ==
    /\ Len(overrideList) < MaxHandlers
    /\ LET r == AddFallback(overrideList, overrideCombined, TrapSeq, h,
                            HandlerHeap, NoCallback)
       IN  /\ overrideList' = r.list
           /\ overrideCombined' = r.obj
           /\ last' = Outcome("addProxyHandlerFallback", None, h, None, Raised(r.threw))
    /\ UNCHANGED <<list, primaryTarget, combinedProperties, deletedProperties,
                   prototype, isExtensible, isCallable>>

\* removeProxyOverride (lines 242-244)
RemoveProxyOverride(h) ==
    /\ LET r == RemoveEntry(overrideList, overrideCombined, TrapSeq, h,
                            HandlerHeap, NoCallback)
       IN  /\ overrideList' = r.list
           /\ overrideCombined' = r.obj
           /\ last' = Outcome("removeProxyOverride", None, h, BoolStr(r.removed), None)
    /\ UNCHANGED <<list, primaryTarget, combinedProperties, deletedProperties,
                   prototype, isExtensible, isCallable>>

----------------------------------------------------------------------------
(* Construction (lines 43-70, 254-260) *)

\* options given to createWrappedMultiTargetProxy: an object-shaped proxy
ObjectOptions ==
    [isCallable : {FALSE}, isNotExtensible : BOOLEAN,
     initialTarget : {None, "T1"}, initialTargets : {None, <<"T1", "T2">>}]

\* options of either shape, with at most a single initial target
AnyShapeOptions ==
    [isCallable : BOOLEAN, isNotExtensible : BOOLEAN,
     initialTarget : {None, "T1"}, initialTargets : {None}]

\* the data engine right after createPrioritizedProperties({initialList:
\* [primaryTarget], ...}): [list, obj, threw]
InitialEngine ==
    LET prim == EmptyPrimary
    IN  [list |-> <<Primary>>,
         obj |-> [own |-> FromEntries([k \in Keys |-> Absent],
                                      DataProps(prim, <<Primary>>), 1),
                  proto |-> ObjectProto,
                  extensible |-> TRUE],
         threw |-> FALSE]

\* initialTargets.forEach(addOverrideTarget) (lines 257-259)
RECURSIVE AddInitialTargets(_, _, _, _)
AddInitialTargets(engine, targets, i, o) ==
    IF i > Len(targets) \/ engine.threw THEN engine
    ELSE AddInitialTargets(
            AddOverride(engine.list, engine.obj, KeySeq, OverrideEntryPoint, targets[i],
                        DataHeap(EmptyPrimary),
                        DataCallback(IF o.isCallable THEN FunctionProto ELSE ObjectProto,
                                     {}, ~o.isNotExtensible)),
            targets, i + 1, o)

\* the data engine when the constructor returns
Constructed(o) ==
    IF o.initialTarget # None
        THEN AddFallback(InitialEngine.list, InitialEngine.obj, KeySeq, o.initialTarget,
                         DataHeap(EmptyPrimary),
                         DataCallback(IF o.isCallable THEN FunctionProto ELSE ObjectProto,
                                      {}, ~o.isNotExtensible))
    ELSE IF o.initialTargets # None
        THEN AddInitialTargets(InitialEngine, o.initialTargets, 1, o)
    ELSE InitialEngine

\* the state when createWrappedMultiTargetProxy(o) returns; the outcome holds
\* the options: arg is initialTarget, targets is initialTargets
InitFrom(options) ==
    \E o \in options :
        /\ ~Constructed(o).threw
        /\ list = Constructed(o).list
        /\ combinedProperties = Constructed(o).obj
        /\ primaryTarget = EmptyPrimary
        /\ deletedProperties = {}
        /\ prototype = IF o.isCallable THEN FunctionProto ELSE ObjectProto
        /\ isExtensible = ~o.isNotExtensible
        /\ overrideList = <<>>
        /\ overrideCombined = [own |-> [x \in TrapNames |-> Absent],
                               proto |-> ObjectProto, extensible |-> TRUE]
        /\ isCallable = o.isCallable
        /\ last = [Outcome("construct", None, o.initialTarget, None, None)
                   EXCEPT !.targets = IF o.initialTargets = None
                                        THEN <<>> ELSE o.initialTargets]

\* prototypes given to Object.setPrototypeOf(proxy, ...)
NewPrototypes == {NullProto, ObjectProto}

----------------------------------------------------------------------------
(* Spec: an object-shaped proxy, its traps and its target modifiers.  No    *)
(* handler override is registered, so every trap runs its default logic.    *)

Init == InitFrom(ObjectOptions)

Next ==
    \/ \E k \in Keys : Get(k)
    \/ \E k \in WriteKeys : Has(k)
    \/ OwnKeys
    \/ \E k \in WriteKeys : GetOwnPropertyDescriptor(k)
    \/ GetPrototypeOf
    \/ IsExtensible
    \/ \E k \in WriteKeys : DeleteProperty(k)
    \/ \E k \in WriteKeys, v \in WriteValues : Set(k, v)
    \/ \E k \in DefineKeys, d \in Descriptors : DefineProperty(k, d)
    \/ \E p \in NewPrototypes : SetPrototypeOf(p)
    \/ PreventExtensions
    \/ Invoke
    \/ \E t \in Targets : AddOverrideTarget(t)
    \/ \E t \in Targets : AddFallbackTarget(t)
    \/ \E t \in Targets \cup {Primary} : RemoveTarget(t)
    \/ GetAllTargets
    \/ \E m \in SnapshotMutations : MutateSnapshot(m)

Spec == Init /\ [][Next]_vars

----------------------------------------------------------------------------
(* SpecOverrides: proxies of either shape with proxy handler overrides      *)
(* added and removed, every trap called on key "a".                         *)

InitOverrides == InitFrom(AnyShapeOptions)

NextOverrides ==
    \/ \E h \in Handlers : AddProxyHandlerOverride(h)
    \/ \E h \in Handlers : AddProxyHandlerFallback(h)
    \/ \E h \in Handlers : RemoveProxyOverride(h)
    \/ Get("a")
    \/ Has("a")
    \/ OwnKeys
    \/ GetOwnPropertyDescriptor("a")
    \/ GetPrototypeOf
    \/ IsExtensible
    \/ DeleteProperty("a")
    \/ \E v \in WriteValues : Set("a", v)
    \/ \E d \in Descriptors : DefineProperty("a", d)
    \/ SetPrototypeOf(NullProto)
    \/ PreventExtensions
    \/ Invoke
    \/ AddOverrideTarget("T2")

SpecOverrides == InitOverrides /\ [][NextOverrides]_vars

----------------------------------------------------------------------------
(* SpecEngine: createPrioritizedProperties on its own                       *)
(* (prioritized-properties.ts:39-97), built from an initial list of entries *)
(* and without updateCallback or overrideEntryPoint.                        *)

\* the entries given to the engine: the targets and an object without keys
EngineEntries == Targets \cup {Primary}

\* the initialList option: every list of at most two entries
InitialLists ==
    {<<>>} \cup {<<e>> : e \in EngineEntries}
           \cup {<<e, f>> : e \in EngineEntries, f \in EngineEntries}

\* the objects the engine's list refers to
EngineHeap == DataHeap(EmptyPrimary)

\* createPrioritizedProperties({initialList}) (lines 42-44): [list, obj]
CreatePrioritizedProperties(initialList) ==
    [list |-> initialList,
     obj |-> [own |-> FromEntries([k \in Keys |-> Absent],
                                  ListProps(EngineHeap, initialList), 1),
              proto |-> ObjectProto,
              extensible |-> TRUE]]

InitEngine ==
    \E initialList \in InitialLists :
        /\ list = CreatePrioritizedProperties(initialList).list
        /\ combinedProperties = CreatePrioritizedProperties(initialList).obj
        /\ primaryTarget = EmptyPrimary
        /\ deletedProperties = {}
        /\ prototype = ObjectProto
        /\ isExtensible = TRUE
        /\ overrideList = <<>>
        /\ overrideCombined = [own |-> [x \in TrapNames |-> Absent],
                               proto |-> ObjectProto, extensible |-> TRUE]
        /\ isCallable = FALSE
        /\ last = [Outcome("createPrioritizedProperties", None, None, None, None)
                   EXCEPT !.targets = initialList]

\* addOverride (lines 71-74)
EngineAddOverride(e) ==
    /\ Len(list) < MaxList
    /\ LET r == AddOverride(list, combinedProperties, KeySeq, DefaultEntryPoint, e,
                            EngineHeap, NoCallback)
       IN  /\ list' = r.list
           /\ combinedProperties' = r.obj
           /\ last' = Outcome("addOverride", None, e, None, Raised(r.threw))
    /\ UNCHANGED <<primaryTarget, deletedProperties, prototype, isExtensible,
                   overrideList, overrideCombined, isCallable>>

\* addFallback (lines 75-78)
EngineAddFallback(e) ==
    /\ Len(list) < MaxList
    /\ LET r == AddFallback(list, combinedProperties, KeySeq, e, EngineHeap, NoCallback)
       IN  /\ list' = r.list
           /\ combinedProperties' = r.obj
           /\ last' = Outcome("addFallback", None, e, None, Raised(r.threw))
    /\ UNCHANGED <<primaryTarget, deletedProperties, prototype, isExtensible,
                   overrideList, overrideCombined, isCallable>>

\* removeEntry (lines 80-89)
EngineRemoveEntry(e) ==
    /\ LET r == RemoveEntry(list, combinedProperties, KeySeq, e, EngineHeap, NoCallback)
       IN  /\ list' = r.list
           /\ combinedProperties' = r.obj
           /\ last' = Outcome("removeEntry", None, e, BoolStr(r.removed), Raised(r.threw))
    /\ UNCHANGED <<primaryTarget, deletedProperties, prototype, isExtensible,
                   overrideList, overrideCombined, isCallable>>

\* forceUpdate (lines 90-92)
EngineForceUpdate ==
    /\ LET r == UpdateObject(combinedProperties, KeySeq, ListProps(EngineHeap, list),
                             NoCallback)
       IN  /\ combinedProperties' = r.obj
           /\ last' = Outcome("forceUpdate", None, None, None, Raised(r.threw))
    /\ UNCHANGED <<list, primaryTarget, deletedProperties, prototype, isExtensible,
                   overrideList, overrideCombined, isCallable>>

NextEngine ==
    \/ \E e \in EngineEntries : EngineAddOverride(e)
    \/ \E e \in EngineEntries : EngineAddFallback(e)
    \/ \E e \in EngineEntries : EngineRemoveEntry(e)
    \/ EngineForceUpdate

SpecEngine == InitEngine /\ [][NextEngine]_vars

----------------------------------------------------------------------------
(* The claims.  Helper definitions over the present state. *)

\* entry e of the data list defines key k
Defines(e, k) == EntryProps(primaryTarget, e)[k] # Absent

\* the positions of the data list whose entry defines k
Definers(k) == {i \in 1..Len(list) : Defines(list[i], k)}

\* the value k has in the lowest-index entry that defines it
FirstDefinerValue(k) ==
    LET first == CHOOSE i \in Definers(k) : \A j \in Definers(k) : i <= j
    IN  EntryProps(primaryTarget, list[first])[k]

MutatingTraps == {"set", "deleteProperty", "defineProperty", "setPrototypeOf"}

(* C1: in every reachable state, for every key k that is not tombstoned: if *)
(* some entry of the data list defines k, a default read of k gives the     *)
(* value of the lowest-index entry that defines k; if no entry defines k,   *)
(* has(k) is false and read(k) is undefined (this half is stated for the    *)
(* keys that the prototype of the combined object does not provide).        *)
C1_PriorityInvariant ==
    \A k \in Keys \ deletedProperties :
        IF Definers(k) # {}
            THEN DefaultGet(k) = FirstDefinerValue(k)
            ELSE k \notin ProtoKeys(combinedProperties.proto)
                    => (~DefaultHas(k) /\ DefaultGet(k) = Undefined)

(* C2: after addOverrideTarget(t) on an extensible composed object, every   *)
(* key k that t defines, that is not tombstoned and that the primary entry  *)
(* does not define reads as t's value; the keys t does not define read as   *)
(* they did before the call.                                                *)
C2_OverrideTakesPrecedence ==
    [][(isExtensible /\ last'.op = "addOverrideTarget") =>
          \A k \in Keys :
              IF TargetProps(last'.arg)[k] # Absent
                  THEN (k \notin deletedProperties /\ ~Defines(Primary, k))
                          => DefaultGet(k)' = TargetProps(last'.arg)[k]
                  ELSE DefaultGet(k)' = DefaultGet(k)]_vars

(* C3: after addFallbackTarget(t), for every key that an entry already in   *)
(* the data list defines, read(k) is what it was before the call, and a key *)
(* defined neither by those entries nor by t stays undefined.               *)
C3_FallbackOnlyFillsGaps ==
    [][last'.op = "addFallbackTarget" =>
          \A k \in Keys :
              /\ Definers(k) # {} => DefaultGet(k)' = DefaultGet(k)
              /\ (/\ Definers(k) = {}
                  /\ TargetProps(last'.arg)[k] = Absent
                  /\ DefaultGet(k) = Undefined) => DefaultGet(k)' = Undefined]_vars

(* C4: pinned primary.  On an extensible composed object a default          *)
(* write(k, v) is read back as v, a value read from the primary entry is    *)
(* still read after any addOverrideTarget, and addOverrideTarget never puts *)
(* its target ahead of the primary entry.                                   *)
C4_PinnedPrimary ==
    [][/\ \A k \in Keys :
            (isExtensible /\ last'.op = "set" /\ last'.key = k /\ last'.ret = "true")
                => DefaultGet(k)' = last'.arg
       /\ (isExtensible /\ last'.op = "addOverrideTarget")
            => /\ \A k \in Keys \ deletedProperties :
                    (Defines(Primary, k) /\ DefaultGet(k) = primaryTarget[k].value)
                        => DefaultGet(k)' = primaryTarget[k].value
               /\ list'[1] = Primary]_vars

(* C5: tombstone/rewrite round trip on an extensible composed object:       *)
(* delete(k) makes has(k) false whatever the targets define, and a          *)
(* write(k, v) that follows delete(k) makes has(k) true and read(k) = v.    *)
C5_TombstoneRoundTrip ==
    [][\A k \in Keys :
          /\ (isExtensible /\ last'.op = "deleteProperty" /\ last'.key = k)
                => ~DefaultHas(k)'
          /\ (/\ isExtensible
              /\ last.op = "deleteProperty" /\ last.key = k
              /\ last'.op = "set" /\ last'.key = k)
                => (DefaultHas(k)' /\ DefaultGet(k)' = last'.arg)]_vars

(* C6: a deleted key stays hidden from the four default observation traps   *)
(* across addOverrideTarget, addFallbackTarget, removeTarget,               *)
(* setPrototypeOf and preventExtensions, and leaves the tombstone set only  *)
(* through a successful default write or define of that key.                *)
C6_TombstoneStays ==
    [][\A k \in deletedProperties :
          /\ DefaultGet(k) = Undefined
          /\ ~DefaultHas(k)
          /\ k \notin DefaultOwnKeys
          /\ DefaultGetOwnPropertyDescriptor(k) = Undefined
          /\ k \notin deletedProperties'
                => /\ last'.op \in {"set", "defineProperty"}
                   /\ last'.key = k
                   /\ last'.ret = "true"]_vars

\* the positions of the handler list whose handler defines trap x
RegisteredFor(x) ==
    {i \in 1..Len(overrideList) : HandlerProps(overrideList[i])[x] # Absent}

\* the function that the lowest-index handler defining x has for x
EffectiveOverride(x) ==
    LET first == CHOOSE i \in RegisteredFor(x) : \A j \in RegisteredFor(x) : i <= j
    IN  HandlerProps(overrideList[first])[x]

(* C7: extensibility monotonicity.  Once the extensibility flag is false it *)
(* stays false, isExtensible never returns true again, and every default    *)
(* set, deleteProperty, defineProperty and setPrototypeOf returns false,    *)
(* whatever targets have been added or removed in between.                  *)
C7_ExtensibilityMonotonic ==
    [][~isExtensible =>
          /\ ~isExtensible'
          /\ last'.op = "isExtensible" => last'.ret # "true"
          /\ last'.op \in MutatingTraps => last'.ret = "false"]_vars

\* a refused write on a non-extensible object whose targets were changed
\* after extensibility was disabled (the combined object lost key b, which
\* every target defines and which is never deleted)
C7_Witness ==
    /\ ~isExtensible
    /\ last.op = "set" /\ last.ret = "false"
    /\ Len(list) > 1
    /\ combinedProperties.own["b"] = Absent

(* C8: on a non-extensible composed object each default mutating trap (set, *)
(* deleteProperty, defineProperty, setPrototypeOf) returns false, raises    *)
(* nothing and changes nothing: the tombstone set, the primary entry, the   *)
(* prototype reference, the data list and what get, has and ownKeys give    *)
(* are the same after the call as before it.                                *)
C8_RefusalChangesNothing ==
    [][(~isExtensible /\ last'.op \in MutatingTraps) =>
          /\ last'.ret = "false"
          /\ last'.exc = None
          /\ UNCHANGED <<deletedProperties, primaryTarget, prototype, list,
                         combinedProperties>>
          /\ \A k \in Keys : /\ DefaultGet(k)' = DefaultGet(k)
                             /\ DefaultHas(k)' = DefaultHas(k)
          /\ DefaultOwnKeys' = DefaultOwnKeys]_vars

\* a refused defineProperty of a key that the combined object holds
C8_Witness ==
    /\ ~isExtensible
    /\ last.op = "defineProperty" /\ last.key = "a"
    /\ last.ret = "false" /\ last.exc = None
    /\ combinedProperties.own["a"] # Absent
    /\ ~Defines(Primary, "a")

(* C9: override delegation for the non-invocation traps.  While a handler   *)
(* that defines trap X is registered, a call of X returns the result of the *)
(* effective (lowest-index) override for X and the default logic does not   *)
(* run: the tombstone set, the extensibility flag, the prototype reference  *)
(* and the primary entry are unchanged, whatever the state of the object.   *)
C9_OverrideDelegation ==
    [][\A x \in ObjectTraps :
          (RegisteredFor(x) # {} /\ last'.op = x) =>
              /\ last'.ret = CallResult(EffectiveOverride(x))
              /\ last'.exc = None
              /\ UNCHANGED <<deletedProperties, isExtensible, prototype,
                             primaryTarget>>]_vars

\* an overridden set on a non-extensible object, answered by the override
\* while another handler is registered behind it
C9_Witness ==
    /\ ~isExtensible
    /\ last.op = "set" /\ last.ret = "ret:H2"
    /\ overrideList = <<"H2", "H1">>

(* C10: override delegation for invocation.  On an object built with        *)
(* isCallable, while an override for apply is registered, calling the       *)
(* composed value returns the result of calling that override.              *)
C10_ApplyDelegation ==
    (isCallable /\ RegisteredFor("apply") # {} /\ last.op = "apply") =>
        /\ last.exc = None
        /\ last.ret = CallResult(EffectiveOverride("apply"))

\* the caller-added entries of the data list that are functions
FunctionTargets == {i \in 1..Len(list) : list[i] # Primary /\ TargetIsFunction(list[i])}

(* C11: default invocation.  On an object built with isCallable and with no *)
(* apply override, calling the composed value calls the highest-priority    *)
(* caller-added target that is a function and returns its result; the       *)
(* primary entry is called only when no caller-added target is a function.  *)
C11_DefaultInvocation ==
    (isCallable /\ RegisteredFor("apply") = {} /\ last.op = "apply") =>
        /\ last.exc = None
        /\ last.ret = IF FunctionTargets = {}
                         THEN CallEntry(Primary)
                         ELSE CallEntry(list[CHOOSE i \in FunctionTargets :
                                                \A j \in FunctionTargets : i <= j])

(* C12: construction with initialTargets = [t1, ..., tn] takes the list in  *)
(* priority order: a key that several of them define reads as the value of  *)
(* the one with the smallest index, and all of them rank behind the primary *)
(* entry.                                                                   *)
C12_InitialTargetsOrder ==
    (last.op = "construct" /\ last.arg = None /\ last.targets # <<>>) =>
        /\ list[1] = Primary
        /\ \A k \in Keys :
              LET givers == {i \in 1..Len(last.targets) :
                                TargetProps(last.targets[i])[k] # Absent}
              IN  givers # {} =>
                      DefaultGet(k) =
                          TargetProps(last.targets[CHOOSE i \in givers :
                                                      \A j \in givers : i <= j])[k]

(* C13: exactly one of initialTarget and initialTargets.  A construction    *)
(* given both fails and returns no composed object; a construction given    *)
(* neither succeeds and gives a composition with no keys.                   *)
C13_ExactlyOneInitialMode ==
    last.op = "construct" =>
        /\ ~(last.arg # None /\ last.targets # <<>>)
        /\ (last.arg = None /\ last.targets = <<>>) => DefaultOwnKeys = {}

(* C14: removeTarget(e) returns true exactly when e is in the data list; it *)
(* then removes the first occurrence of e only; when e is not in the list   *)
(* it returns false, raises nothing and leaves the list and the combined    *)
(* view as they were.                                                       *)
C14_RemoveByIdentity ==
    [][\A e \in Targets :
          (last'.op = "removeTarget" /\ last'.arg = e) =>
              IF IndexOf(list, e) # 0
                  THEN /\ last'.ret = "true"
                       /\ last'.exc = None
                       /\ list' = SpliceRemove(list, IndexOf(list, e))
                  ELSE /\ last'.ret = "false"
                       /\ last'.exc = None
                       /\ UNCHANGED <<list, combinedProperties>>]_vars

\* what the trap functions of the handlers return
HandlerResults ==
    UNION {{CallResult(HandlerProps(h)[x]) :
                x \in {y \in TrapNames : HandlerProps(h)[y] # Absent}} : h \in Handlers}

C16_SnapshotIsDefensive ==
    [][/\ last'.op = "getAllTargets" =>
            /\ last'.targets = list
            /\ UNCHANGED <<list, primaryTarget, combinedProperties,
                           deletedProperties, prototype, isExtensible>>
       /\ last'.op = "mutateSnapshot" =>
            /\ UNCHANGED <<list, primaryTarget, combinedProperties,
                           deletedProperties, prototype, isExtensible>>
            /\ \A k \in Keys : DefaultGet(k)' = DefaultGet(k)
       /\ (last.op = "mutateSnapshot" /\ last'.op = "getAllTargets") =>
            last'.targets = list]_vars

\* the caller holds a mutated snapshot that differs from the three-entry list
C16_Witness ==
    /\ last.op = "mutateSnapshot"
    /\ last.targets # list
    /\ Len(list) = 3

\* the combined view that first-writer-wins gives for the current list: key
\* k holds the value of the lowest-index entry defining it, or nothing
FirstWriterWins(k) == IF Definers(k) = {} THEN Absent ELSE FirstDefinerValue(k)

(* C17: engine initialization.  createPrioritizedProperties with an initial *)
(* list of several entries builds the initial combined view                 *)
(* first-writer-wins: a key that several initial entries define holds the   *)
(* value of the entry with the smallest index.                              *)
C17_InitialViewFirstWriterWins ==
    last.op = "createPrioritizedProperties" =>
        \A k \in Keys : combinedProperties.own[k] = FirstWriterWins(k)

(* C18: engine recomputation.  After addOverride, addFallback, a successful *)
(* removeEntry and forceUpdate the combined view has exactly the keys that  *)
(* some list entry defines, each with the value of the lowest-index entry   *)
(* defining it, and forceUpdate leaves the list as it was.                  *)
C18_RecomputedView ==
    [][(\/ last'.op \in {"addOverride", "addFallback", "forceUpdate"}
        \/ last'.op = "removeEntry" /\ last'.ret = "true") =>
          /\ \A k \in Keys : combinedProperties'.own[k] = FirstWriterWins(k)'
          /\ last'.op = "forceUpdate" => list' = list]_vars

(* C19: the default preventExtensions trap is idempotent.  A call on an     *)
(* object that a preventExtensions call has already made non-extensible     *)
(* returns true, the extensibility flag stays false, and every key keeps    *)
(* what get, has and ownKeys gave for it after the first call.              *)
C19_PreventExtensionsIdempotent ==
    [][(/\ last.op = "preventExtensions" /\ last.ret = "true" /\ last.exc = None
        /\ last'.op = "preventExtensions") =>
          /\ last'.ret = "true"
          /\ last'.exc = None
          /\ ~isExtensible'
          /\ \A k \in Keys : /\ DefaultGet(k)' = DefaultGet(k)
                             /\ DefaultHas(k)' = DefaultHas(k)
          /\ DefaultOwnKeys' = DefaultOwnKeys]_vars

(* C20: in every reachable state, for both isCallable values, the default   *)
(* getPrototypeOf trap gives the current prototype reference: at first the  *)
(* prototype of the primary entry, and after a successful default           *)
(* setPrototypeOf(p) the prototype p.                                       *)
C20_PrototypeReference ==
    DefaultGetPrototypeOf = prototype

\* the keys that at least one entry of the data list defines
DefinedKeys == {k \in Keys : Definers(k) # {}}

(* C21: the default ownKeys trap returns exactly the keys defined by at     *)
(* least one entry of the data list minus the tombstoned keys, and a key    *)
(* deleted through the proxy is left out at once, before any recomputation. *)
C21_OwnKeysExact ==
    /\ (last.op = "ownKeys" /\ last.exc = None)
          => last.keys = DefinedKeys \ deletedProperties
    /\ (last.op = "deleteProperty" /\ last.ret = "true")
          => last.key \notin DefaultOwnKeys

(* C22: a default define(k, descriptor) on an extensible composed object    *)
(* clears k's tombstone, applies the descriptor to the primary entry only,  *)
(* recomputes and returns true; afterwards has(k) is true, describe(k)      *)
(* returns a descriptor and read(k) returns the descriptor's value,         *)
(* whatever the targets define.                                             *)
C22_DefineOnPrimary ==
    [][\A k \in Keys :
          (isExtensible /\ last'.op = "defineProperty" /\ last'.key = k)
             => /\ last'.ret = "true" /\ last'.exc = None
                /\ k \notin deletedProperties'
                /\ primaryTarget'[k].value = DefineValue
                /\ \A j \in Keys \ {k} : primaryTarget'[j] = primaryTarget[j]
                /\ list' = list
                /\ DefaultHas(k)'
                /\ DefaultGetOwnPropertyDescriptor(k)' = DefineValue
                /\ DefaultGet(k)' = DefineValue]_vars

----------------------------------------------------------------------------
(* SpecReentrant: an extensible object-shaped proxy whose targets include   *)
(* GetterTarget, so that every recomputation that reaches its accessor runs *)
(* caller code that reads the proxy in the middle of updateObject.          *)

\* options of the proxies of SpecReentrant
ReentrantOptions ==
    [isCallable : {FALSE}, isNotExtensible : {FALSE},
     initialTarget : {None, "T1"}, initialTargets : {None}]

\* the targets the caller adds and removes
ReentrantTargets == {"T1", GetterTarget}

InitReentrant == InitFrom(ReentrantOptions)

NextReentrant ==
    \/ \E t \in ReentrantTargets : AddOverrideTarget(t)
    \/ \E t \in ReentrantTargets : AddFallbackTarget(t)
    \/ \E t \in ReentrantTargets : RemoveTarget(t)
    \/ \E v \in WriteValues : Set(GetterReads, v)
    \/ DeleteProperty(GetterReads)
    \/ \E k \in {"a", "b"} : Get(k)

SpecReentrant == InitReentrant /\ [][NextReentrant]_vars

\* the last recomputation evaluated GetterTarget's accessor: no entry ahead
\* of it defines "b", so the combined object's "b" is what the getter read
GetterRan ==
    /\ Definers("b") # {}
    /\ FirstDefinerValue("b") = Getter

(* C23: recomputation is atomic: no read of the composed object observes an *)
(* intermediate Combined View, also when the read is issued by a getter of  *)
(* a target that runs during the merge scan of addOverrideTarget,           *)
(* addFallbackTarget, removeTarget or a mutating trap: what it reads is     *)
(* what a read before the operation or after it returns.                    *)
C23_AtomicRecomputation ==
    [][(/\ last'.op \in {"addOverrideTarget", "addFallbackTarget", "removeTarget", "set"}
        /\ last'.exc = None
        /\ last'.ret # "false"
        /\ GetterRan')
          => combinedProperties'.own["b"] \in
                {DefaultGet(GetterReads), DefaultGet(GetterReads)'}]_vars

(* C24: the primary entry is at index 0 of the data list in every reachable *)
(* state, whatever modifier calls were made, removeTarget with an element   *)
(* of getAllTargets() included: getAllTargets()[0] is the primary entry.    *)
C24_PrimaryAtIndexZero ==
    /\ Len(list) >= 1
    /\ GetCurrentList(list).array[1] = Primary

(* C25: whenever the extensibility flag is false the combined object, which *)
(* the host proxy wraps, is itself non-extensible, so the answer of the     *)
(* default isExtensible trap agrees with the wrapped object's actual        *)
(* extensibility, in every reachable state, the one right after             *)
(* construction with isNotExtensible and no initial target included.        *)
C25_FlagAgreesWithCombined ==
    /\ ~isExtensible => ~combinedProperties.extensible
    /\ BoolStr(isExtensible) = BoolStr(combinedProperties.extensible)
    /\ last.op = "isExtensible" => last.exc = None

----------------------------------------------------------------------------
(* SpecResubmit: an extensible object-shaped proxy whose caller passes to   *)
(* the modifier methods its own target and also the first element of the    *)
(* array that getAllTargets returns, which is primaryTarget itself.         *)

\* the objects the caller passes as targets
ResubmitTargets == {"T1", Primary}

InitResubmit == InitFrom(ReentrantOptions)

NextResubmit ==
    \/ GetAllTargets
    \/ \E t \in ResubmitTargets : AddOverrideTarget(t)
    \/ \E t \in ResubmitTargets : AddFallbackTarget(t)
    \/ \E t \in ResubmitTargets : RemoveTarget(t)
    \/ \E k \in WriteKeys, v \in WriteValues : Set(k, v)
    \/ \E k \in DefineKeys, d \in Descriptors : DefineProperty(k, d)
    \/ \E k \in WriteKeys : DeleteProperty(k)
    \/ \E k \in Keys : Get(k)

SpecResubmit == InitResubmit /\ [][NextResubmit]_vars

\* the positions of the data list that hold an object passed by the caller:
\* the constructor puts primaryTarget alone in the list, at index 0
SuppliedPositions == 2..Len(list)

(* C26: no trap and no modifier operation changes a caller-supplied target: *)
(* the properties of every object passed as initialTarget, initialTargets   *)
(* element, addOverrideTarget or addFallbackTarget argument are the same    *)
(* after an operation as before it.                                         *)
C26_TargetsUntouched ==
    [][\A i \in SuppliedPositions :
          EntryProps(primaryTarget', list[i]) = EntryProps(primaryTarget, list[i])]_vars

\* the array in reverse order
Reversed(array) == [i \in 1..Len(array) |-> array[Len(array) + 1 - i]]

(* C27: shape of the data list.  With no removal of the primary entry, the  *)
(* array getAllTargets returns is the primary entry, then the override      *)
(* targets with the most recently added first, then the fallback targets in *)
(* order of addition, a constructor-supplied initialTarget being the first  *)
(* fallback: construction gives that shape, addOverrideTarget puts its      *)
(* target right after the primary entry and addFallbackTarget puts it last. *)
(* A successful removeTarget deletes one element and keeps the order of the *)
(* others.                                                                  *)
C27_DataListShape ==
    [][/\ (last.op = "construct" /\ last.arg # None)
            => GetCurrentList(list).array = <<Primary, last.arg>>
       /\ (last.op = "construct" /\ last.arg = None)
            => GetCurrentList(list).array = <<Primary>> \o Reversed(last.targets)
       /\ (last'.op = "addOverrideTarget" /\ list # <<>> /\ list[1] = Primary)
            => GetCurrentList(list').array = <<Primary, last'.arg>> \o Tail(list)
       /\ last'.op = "addFallbackTarget"
            => GetCurrentList(list').array = list \o <<last'.arg>>
       /\ (last'.op = "removeTarget" /\ last'.ret = "true")
            => \E i \in 1..Len(list) :
                  /\ list[i] = last'.arg
                  /\ GetCurrentList(list').array =
                        SubSeq(list, 1, i - 1) \o SubSeq(list, i + 1, Len(list))]_vars

\* an override target added when the list holds the primary entry and T1
\* stands right after the primary entry, ahead of T1
C27_Witness ==
    /\ last.op = "addOverrideTarget"
    /\ last.arg = "T2"
    /\ list = <<Primary, "T2", "T1">>

====
